---- MODULE Spec2Model ----
(***************************************************************************)
(* Model of portal/main.py: a FastAPI portal that delegates authentication *)
(* to an OpenID Connect provider (Keycloak).  The state is the per-browser *)
(* session, the /callback handlings in flight (each one suspended at its   *)
(* two awaited upstream calls) and a record of the step taken last, with   *)
(* the response it sent.                                                   *)
(*                                                                         *)
(* Python values are tagged records (None, str, dict) so that truthiness   *)
(* ("if not user", "if access_token") is computed as Python computes it.   *)
(* f-strings are sequences of their parts; URLs are records of the base,   *)
(* the path and the query parameters.                                      *)
(*                                                                         *)
(* request.session is the one session of the browser: every handler reads  *)
(* and writes it directly, and the code between two awaits runs as one     *)
(* step.  How SessionMiddleware carries the session between requests is    *)
(* outside main.py and is not modelled.                                    *)
(***************************************************************************)
EXTENDS Integers, Sequences, FiniteSets, TLC

(***************************************************************************)
(* Bounds of the model.                                                    *)
(***************************************************************************)
\* number of /callback handlings of one browser session that may be in flight
NumHandlers == 2

Handlers == 1..NumHandlers

(***************************************************************************)
(* Python values.                                                          *)
(***************************************************************************)
None == [t |-> "none"]

Str(s) == [t |-> "str", s |-> s]

Dict(f) == [t |-> "dict", d |-> f]

EmptyDict == << >>

\* bool(v)
Truthy(v) ==
    CASE v.t = "none" -> FALSE
      [] v.t = "str"  -> v.s # ""
      [] v.t = "dict" -> DOMAIN v.d # {}

\* d.get(k) on a mapping with PyValue values
DictGet(d, k) == IF k \in DOMAIN d THEN d[k] ELSE None

\* d[k] = v
DictSet(d, k, v) == [x \in DOMAIN d \cup {k} |-> IF x = k THEN v ELSE d[x]]

(***************************************************************************)
(* Configuration (the defaults of the os.getenv calls).                    *)
(***************************************************************************)
KEYCLOAK_URL_PUBLIC == "http://localhost:8080"

KEYCLOAK_URL_INTERNAL == "http://keycloak:8080"

KEYCLOAK_REALM == "portal"

KEYCLOAK_CLIENT_ID == "portal-client"

KEYCLOAK_CLIENT_SECRET == ""

\* "http://localhost:8100/callback", kept as the segments rsplit works on
REDIRECT_URI == <<"http://localhost:8100", "/callback">>

BASE_PATH == "/portal"

RECURSIVE Join(_)
\* the string a sequence of segments spells
Join(segs) == IF segs = << >> THEN "" ELSE Head(segs) \o Join(Tail(segs))

\* s.rsplit(sep, 1)[0] on a sequence of segments: what precedes the last
\* occurrence of sep, or all of s when sep does not occur
RSplitHead(s, sep) ==
    LET occ == {i \in 1..Len(s) : s[i] = sep}
    IN  IF occ = {} THEN s
        ELSE SubSeq(s, 1, (CHOOSE i \in occ : \A j \in occ : j <= i) - 1)

(***************************************************************************)
(* Exceptions.                                                             *)
(***************************************************************************)
\* fastapi.HTTPException(status_code, detail); detail is the parts of the
\* f-string
HTTPException(code, detail) ==
    [cls |-> "HTTPException", status_code |-> code, detail |-> detail]

\* the httpx exceptions an upstream call raises
HttpxErrors == {"ConnectTimeout", "ReadTimeout", "ConnectError", "RemoteProtocolError"}

\* the base class of each exception class ("" at the root)
BaseClass(c) ==
    CASE c = "ConnectTimeout"         -> "TimeoutException"
      [] c = "ReadTimeout"            -> "TimeoutException"
      [] c = "TimeoutException"       -> "TransportError"
      [] c = "ConnectError"           -> "NetworkError"
      [] c = "NetworkError"           -> "TransportError"
      [] c = "RemoteProtocolError"    -> "ProtocolError"
      [] c = "ProtocolError"          -> "TransportError"
      [] c = "TransportError"         -> "RequestError"
      [] c = "RequestError"           -> "HTTPError"
      [] c = "HTTPError"              -> "Exception"
      [] c = "HTTPException"          -> "StarletteHTTPException"
      [] c = "StarletteHTTPException" -> "Exception"
      [] OTHER                        -> ""

RECURSIVE IsInstance(_, _)
\* isinstance(an exception of class c, cls)
IsInstance(c, cls) ==
    IF c = "" THEN FALSE
    ELSE IF c = cls THEN TRUE
    ELSE IsInstance(BaseClass(c), cls)

(***************************************************************************)
(* Responses.                                                              *)
(***************************************************************************)
NoResponse == [kind |-> "none"]

TemplateResponse(name, context, code) ==
    [kind |-> "template", template |-> name, context |-> context,
     status_code |-> code]

RedirectResponse(url, code) ==
    [kind |-> "redirect", url |-> url, status_code |-> code]

JSONResponse(content) ==
    [kind |-> "json", content |-> content, status_code |-> 200]

Url(base, path, query) == [base |-> base, path |-> path, query |-> query]

\* f"{BASE_PATH}/home"
HomeUrl == Url(BASE_PATH, "/home", EmptyDict)

\* f"{BASE_PATH}/"
IndexUrl == Url(BASE_PATH, "/", EmptyDict)

(***************************************************************************)
(* Session gate.                                                           *)
(***************************************************************************)
\* outcomes of a piece of code: it raised exc, or it returned value
Raise(exc) == [raised |-> TRUE, exc |-> exc]

Return(value) == [raised |-> FALSE, value |-> value]

get_current_user(sess) == DictGet(sess, "user")

\* require_auth without the check: the user is returned, present or not
require_auth_NoCheck(sess) == Return(get_current_user(sess))

require_auth(sess) ==
    LET user == get_current_user(sess)
    IN  IF ~Truthy(user)
        THEN Raise(HTTPException(401, <<"Not authenticated">>))
        ELSE Return(user)

\* get_error_message: the pair (title, message) of a status code
get_error_message(code) ==
    CASE code = 400 -> <<"Solicitud Incorrecta", "La solicitud no pudo ser procesada debido a un error del cliente.">>
      [] code = 401 -> <<"No Autorizado", "Debe iniciar sesion para acceder a este recurso.">>
      [] code = 403 -> <<"Acceso Denegado", "No tiene permisos para acceder a este recurso.">>
      [] code = 404 -> <<"Pagina No Encontrada", "El recurso solicitado no existe.">>
      [] code = 405 -> <<"Metodo No Permitido", "El metodo HTTP utilizado no esta permitido para este recurso.">>
      [] code = 408 -> <<"Tiempo de Espera Agotado", "La solicitud tardo demasiado tiempo en procesarse.">>
      [] code = 429 -> <<"Demasiadas Solicitudes", "Ha excedido el limite de solicitudes permitidas.">>
      [] code = 500 -> <<"Error Interno del Servidor", "Ocurrio un error en el servidor. Intente nuevamente mas tarde.">>
      [] code = 501 -> <<"No Implementado", "Esta funcionalidad esta en desarrollo.">>
      [] code = 502 -> <<"Error de Puerta de Enlace", "El servidor recibio una respuesta invalida.">>
      [] code = 503 -> <<"Servicio No Disponible", "El servicio esta temporalmente fuera de servicio.">>
      [] code = 504 -> <<"Tiempo de Espera de Puerta de Enlace", "El servidor no respondio a tiempo.">>
      [] OTHER      -> <<"Error", "Ha ocurrido un error inesperado.">>

\* the context the three exception handlers and the catch-all pass to
\* error.html (the request aside): the exception's detail is not part of it
ErrorContext(code, sess) ==
    LET user == get_current_user(sess)
        msg  == get_error_message(code)
    IN  [status_code   |-> code,
         error_title   |-> msg[1],
         error_message |-> msg[2],
         base_path     |-> BASE_PATH,
         authenticated |-> (user # None),
         user          |-> user]

not_found_exception_handler(sess, exc) ==
    TemplateResponse("error.html", ErrorContext(404, sess), 404)

custom_http_exception_handler(sess, exc) ==
    TemplateResponse("error.html", ErrorContext(exc.status_code, sess),
                     exc.status_code)

fastapi_http_exception_handler(sess, exc) ==
    TemplateResponse("error.html", ErrorContext(exc.status_code, sess),
                     exc.status_code)

\* the handler registered for the exception: the one for its status code,
\* else the one for the nearest class of its MRO
ExceptionHandler(sess, exc) ==
    IF exc.status_code = 404
    THEN not_found_exception_handler(sess, exc)
    ELSE IF IsInstance(exc.cls, "HTTPException")
    THEN fastapi_http_exception_handler(sess, exc)
    ELSE custom_http_exception_handler(sess, exc)

(***************************************************************************)
(* Routes that answer in one step.  Each is the response for a session.    *)
(***************************************************************************)
index(sess) ==
    LET user == get_current_user(sess)
    IN  TemplateResponse("index.html",
                         [base_path     |-> BASE_PATH,
                          authenticated |-> (user # None),
                          user          |-> user],
                         200)

\* the provider's authorization URL
AuthUrl ==
    Url(KEYCLOAK_URL_PUBLIC,
        "/realms/" \o KEYCLOAK_REALM \o "/protocol/openid-connect/auth",
        [client_id     |-> KEYCLOAK_CLIENT_ID,
         redirect_uri  |-> Join(REDIRECT_URI),
         response_type |-> "code",
         scope         |-> "openid profile email"])

login(sess) ==
    LET user == get_current_user(sess)
    IN  IF Truthy(user)
        THEN RedirectResponse(HomeUrl, 307)
        ELSE RedirectResponse(AuthUrl, 307)

contact(sess) ==
    ExceptionHandler(sess, HTTPException(501, <<"Contacto en desarrollo">>))

home(sess) ==
    LET dep == require_auth(sess)
    IN  IF dep.raised
        THEN ExceptionHandler(sess, dep.exc)
        ELSE TemplateResponse("home.html",
                              [user          |-> dep.value,
                               base_path     |-> BASE_PATH,
                               authenticated |-> TRUE],
                              200)

\* /profile declared without Depends(require_auth)
profile_NoDepends(sess) ==
    ExceptionHandler(sess, HTTPException(501, <<"Perfil en desarrollo">>))

profile(sess) ==
    LET dep == require_auth(sess)
    IN  IF dep.raised
        THEN ExceptionHandler(sess, dep.exc)
        ELSE ExceptionHandler(sess, HTTPException(501, <<"Perfil en desarrollo">>))

settings(sess) ==
    LET dep == require_auth(sess)
    IN  IF dep.raised
        THEN ExceptionHandler(sess, dep.exc)
        ELSE ExceptionHandler(sess, HTTPException(501, <<"Configuracion en desarrollo">>))

help_page(sess) ==
    LET dep == require_auth(sess)
    IN  IF dep.raised
        THEN ExceptionHandler(sess, dep.exc)
        ELSE ExceptionHandler(sess, HTTPException(501, <<"Ayuda en desarrollo">>))

health == JSONResponse([status |-> "healthy"])

FileResponse == [kind |-> "file", status_code |-> 200]

\* starlette's HTTPException, as StaticFiles raises it for a missing file
StarletteHTTPException(code, detail) ==
    [cls |-> "StarletteHTTPException", status_code |-> code, detail |-> detail]

\* the mounted StaticFiles application
static_files(sess, found) ==
    IF found
    THEN FileResponse
    ELSE ExceptionHandler(sess, StarletteHTTPException(404, <<"Not Found">>))

catch_all_404(sess) ==
    TemplateResponse("error.html", ErrorContext(404, sess), 404)

\* the provider's logout URL
LogoutUrl ==
    LET redirect_base == RSplitHead(REDIRECT_URI, "/callback")
        post_logout_redirect == Join(redirect_base) \o "/"
    IN  Url(KEYCLOAK_URL_PUBLIC,
            "/realms/" \o KEYCLOAK_REALM \o "/protocol/openid-connect/logout",
            [post_logout_redirect_uri |-> post_logout_redirect,
             client_id                |-> KEYCLOAK_CLIENT_ID])

\* /logout deciding on the user entry instead of the token
logout_TestsUser(sess) ==
    IF Truthy(get_current_user(sess))
    THEN RedirectResponse(LogoutUrl, 302)
    ELSE RedirectResponse(IndexUrl, 302)

\* the response of /logout for the session it was called with
logout(sess) ==
    LET access_token == DictGet(sess, "access_token")
    IN  IF Truthy(access_token)
        THEN RedirectResponse(LogoutUrl, 302)
        ELSE RedirectResponse(IndexUrl, 302)

\* request.session.pop("user", None) in the place of clear()
SessionClear_PopsUser(sess) == [k \in DOMAIN sess \ {"user"} |-> sess[k]]

\* request.session.pop("access_token", None) in the place of clear()
SessionClear_PopsToken(sess) == [k \in DOMAIN sess \ {"access_token"} |-> sess[k]]

\* request.session.clear()
SessionClear(sess) == EmptyDict

(***************************************************************************)
(* /callback: the two upstream calls and what the handler does with their  *)
(* answers.                                                                *)
(***************************************************************************)
NoAnswer == [kind |-> "none"]

\* an httpx.Response
HttpResponse(code, text, json) ==
    [kind |-> "response", status_code |-> code, text |-> text, json |-> json]

\* the awaited call raised an httpx exception of class cls
HttpRaise(cls) == [kind |-> "raise", cls |-> cls]

\* statuses other than 200 an endpoint answers with
FailStatuses == {400, 401, 503}

\* bodies of the non-200 answers
Bodies == {"invalid_grant", "upstream unavailable"}

\* the JSON documents of a 200 answer of the token endpoint
TokenJsons ==
    {EmptyDict,
     [access_token |-> Str("")],
     [access_token |-> Str("tokA")],
     [access_token |-> Str("tokB")]}

\* the claims of a 200 answer of the user-info endpoint
UserClaims == {EmptyDict, [sub |-> "alice"], [sub |-> "bob"]}

FailAnswers ==
    {HttpResponse(c, b, None) : c \in FailStatuses, b \in Bodies}
        \cup {HttpRaise(c) : c \in HttpxErrors}

TokenAnswers == {HttpResponse(200, "", Dict(j)) : j \in TokenJsons} \cup FailAnswers

UserinfoAnswers == {HttpResponse(200, "", Dict(j)) : j \in UserClaims} \cup FailAnswers

\* the except clauses with RequestError caught first
ExceptClauses_RequestErrorFirst(exc) ==
    IF IsInstance(exc.cls, "RequestError")
    THEN HTTPException(502, <<"Connection error: ", exc.cls>>)
    ELSE IF IsInstance(exc.cls, "TimeoutException")
    THEN HTTPException(504, <<"Timeout connecting to Keycloak">>)
    ELSE exc

\* the except clauses of the try block, in their order
ExceptClauses(exc) ==
    IF IsInstance(exc.cls, "TimeoutException")
    THEN HTTPException(504, <<"Timeout connecting to Keycloak">>)
    ELSE IF IsInstance(exc.cls, "RequestError")
    THEN HTTPException(502, <<"Connection error: ", exc.cls>>)
    ELSE exc

\* the try block without the check of the access token
TokenStep_NoTokenCheck(token_response) ==
    IF token_response.kind = "raise"
    THEN Raise([cls |-> token_response.cls])
    ELSE IF token_response.status_code # 200
    THEN Raise(HTTPException(400, <<"Token exchange failed: ", token_response.text>>))
    ELSE Return(DictGet(token_response.json.d, "access_token"))

\* the try block from the answer of client.post up to client.get: it raises,
\* or goes on to the user-info request with the access token
TokenStep(token_response) ==
    IF token_response.kind = "raise"
    THEN Raise([cls |-> token_response.cls])
    ELSE IF token_response.status_code # 200
    THEN Raise(HTTPException(400, <<"Token exchange failed: ", token_response.text>>))
    ELSE LET tokens == token_response.json.d
             access_token == DictGet(tokens, "access_token")
         IN  IF ~Truthy(access_token)
             THEN Raise(HTTPException(400, <<"No access token received">>))
             ELSE Return(access_token)

\* the try block storing the claims and not the token
UserinfoStep_DropsToken(sess, access_token, userinfo_response) ==
    IF userinfo_response.kind = "raise"
    THEN Raise([cls |-> userinfo_response.cls])
    ELSE IF userinfo_response.status_code # 200
    THEN Raise(HTTPException(400, <<"Failed to get user info: ", userinfo_response.text>>))
    ELSE Return(DictSet(sess, "user", userinfo_response.json))

\* the try block without the check of the user-info status
UserinfoStep_NoStatusCheck(sess, access_token, userinfo_response) ==
    IF userinfo_response.kind = "raise"
    THEN Raise([cls |-> userinfo_response.cls])
    ELSE Return(DictSet(DictSet(sess, "user", userinfo_response.json),
                        "access_token", access_token))

\* the try block storing the token with setdefault: a token already in the
\* session is kept
UserinfoStep_KeepsOldToken(sess, access_token, userinfo_response) ==
    IF userinfo_response.kind = "raise"
    THEN Raise([cls |-> userinfo_response.cls])
    ELSE IF userinfo_response.status_code # 200
    THEN Raise(HTTPException(400, <<"Failed to get user info: ", userinfo_response.text>>))
    ELSE LET stored == DictSet(sess, "user", userinfo_response.json)
         IN  Return(IF "access_token" \in DOMAIN stored
                    THEN stored
                    ELSE DictSet(stored, "access_token", access_token))

\* the try block from the answer of client.get on: it raises, or returns the
\* session with the claims and the token stored
UserinfoStep(sess, access_token, userinfo_response) ==
    IF userinfo_response.kind = "raise"
    THEN Raise([cls |-> userinfo_response.cls])
    ELSE IF userinfo_response.status_code # 200
    THEN Raise(HTTPException(400, <<"Failed to get user info: ", userinfo_response.text>>))
    ELSE LET user_info == userinfo_response.json
         IN  Return(DictSet(DictSet(sess, "user", user_info),
                            "access_token", access_token))

(***************************************************************************)
(* Routing: the routes in the order of their registration.                 *)
(***************************************************************************)
CatchAll == "/{full_path:path}"

\* app.mount("/static", ...)
StaticMount == "/static"

\* the routes with the catch-all registered before the others
Routes_CatchAllFirst ==
    <<CatchAll, StaticMount, "/", "/login", "/contact", "/callback", "/home",
      "/profile", "/settings", "/help", "/logout", "/health">>

Routes ==
    <<StaticMount, "/", "/login", "/contact", "/callback", "/home", "/profile",
      "/settings", "/help", "/logout", "/health", CatchAll>>

\* paths under the mount
StaticPaths == {"/static/app.css"}

\* paths no route but the catch-all matches
OtherPaths == {"/nope", "/admin"}

\* the paths of the decorated routes, the catch-all aside
RoutePaths ==
    {"/", "/login", "/contact", "/callback", "/home", "/profile",
     "/settings", "/help", "/logout", "/health"}

Paths == RoutePaths \cup StaticPaths \cup OtherPaths

Matches(route, path) ==
    IF route = CatchAll THEN TRUE
    ELSE IF route = StaticMount THEN path \in StaticPaths
    ELSE route = path

\* the first route that matches the path
Dispatch(path) ==
    Routes[CHOOSE i \in 1..Len(Routes) :
               /\ Matches(Routes[i], path)
               /\ \A j \in 1..(i - 1) : ~Matches(Routes[j], path)]

(***************************************************************************)
(* State.                                                                  *)
(***************************************************************************)
VARIABLES
    session,         \* request.session of the browser: a mapping of its entries
    pc,              \* per handling of /callback: "idle", "token", "userinfo"
    token_response,  \* per handling: the answer of the token endpoint
    access_token,    \* per handling: the local access_token
    posts,           \* per handling: token requests issued so far
    gets,            \* per handling: user-info requests issued so far
    last,            \* the step taken last
    logged_out,      \* history: /logout was handled and no /callback has
                     \* stored a user since
    fetched          \* history: the token and the claims of the user-info
                     \* call whose result was stored last

vars == <<session, pc, token_response, access_token, posts, gets, last,
          logged_out, fetched>>

\* the record of a step: the route and path, the handling (0 for the routes
\* that answer in one step), where the handler resumed ("request" when it
\* was dispatched, "token" or "userinfo" when that endpoint answered), the
\* session before it, the upstream answer it received, the handling's token
\* answer and request counts, the exception raised in the handler and the
\* response sent (NoResponse while the handler is suspended)
Step(route, path, h, at, answer, tr, np, ng, exc, response) ==
    [route |-> route, path |-> path, h |-> h, at |-> at, before |-> session,
     answer |-> answer, token_response |-> tr, posts |-> np, gets |-> ng,
     exc |-> exc, response |-> response]

NoException == [cls |-> ""]

Init ==
    /\ session = EmptyDict
    /\ pc = [h \in Handlers |-> "idle"]
    /\ token_response = [h \in Handlers |-> NoAnswer]
    /\ access_token = [h \in Handlers |-> None]
    /\ posts = [h \in Handlers |-> 0]
    /\ gets = [h \in Handlers |-> 0]
    /\ last = [route |-> "", path |-> "", h |-> 0, at |-> "", before |-> EmptyDict,
               answer |-> NoAnswer, token_response |-> NoAnswer,
               posts |-> 0, gets |-> 0, exc |-> NoException,
               response |-> NoResponse]
    /\ logged_out = FALSE
    /\ fetched = [token |-> None, claims |-> None]

handlings == <<pc, token_response, access_token, posts, gets>>

\* a route that answers in one step with the response resp and leaves the
\* session as sess
Answer(route, resp, sess) ==
    \E path \in Paths :
        /\ Dispatch(path) = route
        /\ session' = sess
        /\ last' = Step(route, path, 0, "request", NoAnswer, NoAnswer, 0, 0, NoException, resp)
        /\ logged_out' = (route = "/logout" \/ logged_out)
        /\ UNCHANGED <<handlings, fetched>>

Index == Answer("/", index(session), session)

\* /login starting from a fresh session
Login_ClearsSession == Answer("/login", login(session), SessionClear(session))

Login == Answer("/login", login(session), session)

Contact == Answer("/contact", contact(session), session)

Home == Answer("/home", home(session), session)

Profile == Answer("/profile", profile(session), session)

Settings == Answer("/settings", settings(session), session)

Help == Answer("/help", help_page(session), session)

Health == Answer("/health", health, session)

CatchAll404 == Answer(CatchAll, catch_all_404(session), session)

\* a path under the mount: the file is served, or StaticFiles raises 404
Static ==
    \E found \in BOOLEAN :
        Answer(StaticMount, static_files(session, found), session)

\* /logout without request.session.clear()
Logout_KeepsSession == Answer("/logout", logout(session), session)

Logout == Answer("/logout", logout(session), SessionClear(session))

\* the locals of a handling that has returned
Finish(h) ==
    /\ pc' = [pc EXCEPT ![h] = "idle"]
    /\ token_response' = [token_response EXCEPT ![h] = NoAnswer]
    /\ access_token' = [access_token EXCEPT ![h] = None]
    /\ posts' = [posts EXCEPT ![h] = 0]
    /\ gets' = [gets EXCEPT ![h] = 0]

\* /callback is dispatched: the handler opens the client and awaits
\* client.post(token_url, ...)
CallbackPost(h) ==
    /\ pc[h] = "idle"
    /\ Dispatch("/callback") = "/callback"
    /\ pc' = [pc EXCEPT ![h] = "token"]
    /\ posts' = [posts EXCEPT ![h] = @ + 1]
    /\ last' = Step("/callback", "/callback", h, "request", NoAnswer, NoAnswer,
                    posts[h] + 1, gets[h], NoException, NoResponse)
    /\ UNCHANGED <<session, token_response, access_token, gets,
                   logged_out, fetched>>

\* the handler storing the token in the session as soon as it has it
CallbackToken_StoresTokenEarly(h) ==
    /\ pc[h] = "token"
    /\ \E ans \in TokenAnswers :
         LET r == TokenStep(ans)
         IN  IF r.raised
             THEN LET exc == ExceptClauses(r.exc)
                  IN  /\ Finish(h)
                      /\ last' = Step("/callback", "/callback", h, "token", ans, ans,
                                      posts[h], gets[h], exc,
                                      ExceptionHandler(session, exc))
                      /\ UNCHANGED <<session, logged_out, fetched>>
             ELSE /\ pc' = [pc EXCEPT ![h] = "userinfo"]
                  /\ token_response' = [token_response EXCEPT ![h] = ans]
                  /\ access_token' = [access_token EXCEPT ![h] = r.value]
                  /\ gets' = [gets EXCEPT ![h] = @ + 1]
                  /\ session' = DictSet(session, "access_token", r.value)
                  /\ last' = Step("/callback", "/callback", h, "token", ans, ans,
                                  posts[h], gets[h] + 1, NoException, NoResponse)
                  /\ UNCHANGED <<posts, logged_out, fetched>>

\* the token endpoint answers: the handler raises, or awaits
\* client.get(userinfo_url, ...)
CallbackToken(h) ==
    /\ pc[h] = "token"
    /\ \E ans \in TokenAnswers :
         LET r == TokenStep(ans)
         IN  IF r.raised
             THEN LET exc == ExceptClauses(r.exc)
                  IN  /\ Finish(h)
                      /\ last' = Step("/callback", "/callback", h, "token", ans, ans,
                                      posts[h], gets[h], exc,
                                      ExceptionHandler(session, exc))
                      /\ UNCHANGED <<session, logged_out, fetched>>
             ELSE /\ pc' = [pc EXCEPT ![h] = "userinfo"]
                  /\ token_response' = [token_response EXCEPT ![h] = ans]
                  /\ access_token' = [access_token EXCEPT ![h] = r.value]
                  /\ gets' = [gets EXCEPT ![h] = @ + 1]
                  /\ last' = Step("/callback", "/callback", h, "token", ans, ans,
                                  posts[h], gets[h] + 1, NoException, NoResponse)
                  /\ UNCHANGED <<session, posts, logged_out, fetched>>

\* the user-info endpoint answers: the handler raises, or stores the claims
\* and the token and redirects to the home page
CallbackUserinfo(h) ==
    /\ pc[h] = "userinfo"
    /\ \E ans \in UserinfoAnswers :
         LET r == UserinfoStep(session, access_token[h], ans)
         IN  /\ Finish(h)
             /\ IF r.raised
                THEN LET exc == ExceptClauses(r.exc)
                     IN  /\ last' = Step("/callback", "/callback", h, "userinfo", ans,
                                         token_response[h], posts[h], gets[h],
                                         exc, ExceptionHandler(session, exc))
                         /\ UNCHANGED <<session, logged_out, fetched>>
                ELSE /\ session' = r.value
                     /\ logged_out' = FALSE
                     /\ fetched' = [token |-> access_token[h], claims |-> ans.json]
                     /\ last' = Step("/callback", "/callback", h, "userinfo", ans,
                                     token_response[h], posts[h], gets[h],
                                     NoException, RedirectResponse(HomeUrl, 307))

Next ==
    \/ Index
    \/ Login
    \/ Contact
    \/ Home
    \/ Profile
    \/ Settings
    \/ Help
    \/ Health
    \/ CatchAll404
    \/ Static
    \/ Logout
    \/ \E h \in Handlers : CallbackPost(h)
    \/ \E h \in Handlers : CallbackToken(h)
    \/ \E h \in Handlers : CallbackUserinfo(h)

Spec == Init /\ [][Next]_vars

(***************************************************************************)
(* Properties.                                                             *)
(***************************************************************************)
ProtectedRoutes == {"/home", "/profile", "/settings", "/help"}

StubRoutes == {"/contact", "/profile", "/settings", "/help"}

\* the step taken last ended a handling of /callback
CallbackEnded == last.route = "/callback" /\ last.response # NoResponse

\* the answer is an HTTP response with a status other than 200
Non200(answer) == answer.kind = "response" /\ answer.status_code # 200

\* the answer is a 200 response of the token endpoint with an access token
Has200Token(answer) ==
    /\ answer.kind = "response"
    /\ answer.status_code = 200
    /\ "access_token" \in DOMAIN answer.json.d
    /\ answer.json.d["access_token"] # Str("")

\* C1: whenever a protected route (/home, /profile, /settings, /help) was
\* requested in a session without a user entry, the response has status
\* 401; and in every reachable session without a user entry each of the
\* four routes answers 401.
C1_UnauthenticatedIs401 ==
    /\ (last.route \in ProtectedRoutes /\ "user" \notin DOMAIN last.before)
          => last.response.status_code = 401
    /\ "user" \notin DOMAIN session
          => /\ home(session).status_code = 401
             /\ profile(session).status_code = 401
             /\ settings(session).status_code = 401
             /\ help_page(session).status_code = 401

\* C1 witness: /settings was requested in a session without a user entry
\* and answered with the 401 error page.
C1_Witness ==
    /\ last.route = "/settings"
    /\ "user" \notin DOMAIN last.before
    /\ last.response.status_code = 401
    /\ last.response.kind = "template"

\* C2: a handling of /callback whose token exchange answered 200 with an
\* access token and whose user-info call answered 200 ends with the session
\* entry user equal to the claims of the user-info answer and the entry
\* access_token equal to the token of the token answer, and with a redirect
\* to BASE_PATH/home, whatever the session was before.
C2_CallbackSuccess ==
    (/\ CallbackEnded
     /\ last.at = "userinfo"
     /\ Has200Token(last.token_response)
     /\ last.answer.kind = "response"
     /\ last.answer.status_code = 200)
        => /\ "user" \in DOMAIN session
           /\ session["user"] = last.answer.json
           /\ "access_token" \in DOMAIN session
           /\ session["access_token"] = last.token_response.json.d["access_token"]
           /\ last.response.kind = "redirect"
           /\ last.response.url = [base |-> "/portal", path |-> "/home", query |-> << >>]

\* C2 witness: a successful callback in a session that was authenticated as
\* another user with another token.
C2_Witness ==
    /\ CallbackEnded
    /\ last.at = "userinfo"
    /\ last.answer = HttpResponse(200, "", Dict([sub |-> "bob"]))
    /\ last.token_response = HttpResponse(200, "", Dict([access_token |-> Str("tokB")]))
    /\ last.before = [user |-> Dict([sub |-> "alice"]), access_token |-> Str("tokA")]
    /\ session = [user |-> Dict([sub |-> "bob"]), access_token |-> Str("tokB")]

\* the texts the template of a response is given to render
RenderedTexts(resp) ==
    IF resp.kind = "template"
    THEN {resp.context[k] :
            k \in DOMAIN resp.context \ {"status_code", "authenticated", "user"}}
    ELSE {}

\* C3: when the token endpoint answers with a status other than 200, the
\* response has status 400 and the upstream body is among the texts of the
\* response.
C3_TokenFailureShowsUpstreamBody ==
    (CallbackEnded /\ last.at = "token" /\ Non200(last.answer))
        => /\ last.response.status_code = 400
           /\ last.answer.text \in RenderedTexts(last.response)

\* C4: an upstream call of /callback that raised a timeout yields 504, one
\* that raised another request error yields 502, and a non-200 upstream
\* answer yields neither 502 nor 504.
C4_TimeoutAndConnectionErrors ==
    /\ (CallbackEnded /\ last.answer.kind = "raise"
            /\ last.answer.cls \in {"ConnectTimeout", "ReadTimeout"})
          => last.response.status_code = 504
    /\ (CallbackEnded /\ last.answer.kind = "raise"
            /\ last.answer.cls \in {"ConnectError", "RemoteProtocolError"})
          => last.response.status_code = 502
    /\ (CallbackEnded /\ Non200(last.answer))
          => last.response.status_code \notin {502, 504}

\* C4 witness: the user-info call timed out and the response is 504.
C4_Witness ==
    /\ CallbackEnded
    /\ last.at = "userinfo"
    /\ last.answer = HttpRaise("ReadTimeout")
    /\ last.response.status_code = 504

\* C5: after /logout the session holds neither a user entry nor an
\* access_token entry: it is empty.
C5_LogoutClearsSession ==
    last.route = "/logout"
        => /\ "user" \notin DOMAIN session
           /\ "access_token" \notin DOMAIN session
           /\ DOMAIN session = {}

\* C5 witness: /logout was handled in a session that held a user and a token.
C5_Witness ==
    /\ last.route = "/logout"
    /\ "user" \in DOMAIN last.before
    /\ "access_token" \in DOMAIN last.before
    /\ DOMAIN session = {}

\* the response redirects to the provider's logout endpoint with a
\* post-logout redirect target and the client id
ToProviderLogout(resp) ==
    /\ resp.kind = "redirect"
    /\ resp.url.base = "http://localhost:8080"
    /\ resp.url.path = "/realms/portal/protocol/openid-connect/logout"
    /\ DOMAIN resp.url.query = {"post_logout_redirect_uri", "client_id"}
    /\ resp.url.query["post_logout_redirect_uri"] = "http://localhost:8100/"
    /\ resp.url.query["client_id"] = "portal-client"

\* the page a successful /callback redirects to
CallbackSuccessUrl == [base |-> "/portal", path |-> "/home", query |-> << >>]

\* C6 as stated: /logout redirects to the provider's logout endpoint exactly
\* when the session held an access token, and otherwise to the page a
\* successful callback redirects to.
C6_LogoutRedirectsHome ==
    last.route = "/logout"
        => /\ ToProviderLogout(last.response)
                <=> "access_token" \in DOMAIN last.before
           /\ "access_token" \notin DOMAIN last.before
                => /\ last.response.kind = "redirect"
                   /\ last.response.url = CallbackSuccessUrl

\* C6 amended: /logout redirects to the provider's logout endpoint, with a
\* post-logout redirect target and the client id, exactly when the session
\* held an access token; otherwise it redirects to the index page
\* BASE_PATH/, which is not the page BASE_PATH/home a successful callback
\* redirects to.
C6_LogoutRedirectsIndex ==
    last.route = "/logout"
        => /\ last.response.kind = "redirect"
           /\ last.response.status_code = 302
           /\ ToProviderLogout(last.response)
                <=> "access_token" \in DOMAIN last.before
           /\ "access_token" \notin DOMAIN last.before
                => /\ last.response.url = [base |-> "/portal", path |-> "/", query |-> << >>]
                   /\ last.response.url # CallbackSuccessUrl

\* C6 witness: /logout with a token held went to the provider.
C6_Witness ==
    /\ last.route = "/logout"
    /\ "access_token" \in DOMAIN last.before
    /\ ToProviderLogout(last.response)

\* C7: when the user-info endpoint answers with a status other than 200,
\* /callback responds 400.
C7_UserinfoFailureIs400 ==
    (CallbackEnded /\ last.at = "userinfo" /\ Non200(last.answer))
        => last.response.status_code = 400

\* C7 witness: the user-info endpoint answered 401 after a successful token
\* exchange and the response is 400.
C7_Witness ==
    /\ CallbackEnded
    /\ last.at = "userinfo"
    /\ Has200Token(last.token_response)
    /\ last.answer.kind = "response"
    /\ last.answer.status_code = 401
    /\ last.response.status_code = 400

\* C8 as stated: the stub routes respond 501 in every session state.
C8_StubsAlways501 ==
    last.route \in StubRoutes => last.response.status_code = 501

\* the session holds a user entry that is not empty
HasUser(sess) ==
    /\ "user" \in DOMAIN sess
    /\ sess["user"] # None
    /\ sess["user"] # Dict(<< >>)

\* C8 amended: /contact responds 501 in every session state; /profile,
\* /settings and /help respond 501 when the session holds a non-empty user
\* entry and 401 otherwise.
C8_StubsBehindGate ==
    /\ last.route = "/contact" => last.response.status_code = 501
    /\ last.route \in {"/profile", "/settings", "/help"}
          => last.response.status_code
                = (IF HasUser(last.before) THEN 501 ELSE 401)

\* C8 witness: /help answered 501 in an authenticated session.
C8_Witness ==
    /\ last.route = "/help"
    /\ HasUser(last.before)
    /\ last.response.status_code = 501

\* C9: a step of a route other than /callback and /logout leaves the session
\* unchanged; the session gains entries only in a step of /callback and
\* loses entries only in a step of /logout.
C9_SessionFrame ==
    [][/\ last'.route \notin {"/callback", "/logout"} => session' = session
       /\ (DOMAIN session' \ DOMAIN session) # {} => last'.route = "/callback"
       /\ (DOMAIN session \ DOMAIN session') # {} => last'.route = "/logout"]_vars

\* C9 witness: the error page of /contact was rendered in a session that
\* holds a user and a token, and the session is as it was before.
C9_Witness ==
    /\ last.route = "/contact"
    /\ last.response.status_code = 501
    /\ "user" \in DOMAIN session
    /\ "access_token" \in DOMAIN session
    /\ session = last.before

\* C10: a handling issues at most one token request and at most one
\* user-info request; a user-info request was issued only after a 200 token
\* answer with an access token; a 200 token answer without one yields 400
\* and no user-info request; an upstream failure ends the handling with an
\* error response.
C10_NoRetry ==
    /\ \A h \in Handlers :
          /\ posts[h] <= 1
          /\ gets[h] <= 1
          /\ gets[h] > 0 => Has200Token(token_response[h])
          /\ pc[h] = "idle" => (posts[h] = 0 /\ gets[h] = 0)
    /\ last.posts <= 1
    /\ last.gets <= 1
    /\ last.gets > 0 => Has200Token(last.token_response)
    /\ (/\ last.route = "/callback"
        /\ last.at = "token"
        /\ last.answer.kind = "response"
        /\ last.answer.status_code = 200
        /\ ~Has200Token(last.answer))
          => /\ last.response.status_code = 400
             /\ last.gets = 0
             /\ pc[last.h] = "idle"
    /\ (/\ last.route = "/callback"
        /\ last.at \in {"token", "userinfo"}
        /\ (last.answer.kind = "raise" \/ Non200(last.answer)))
          => /\ last.response.kind = "template"
             /\ last.response.status_code \in {400, 502, 504}
             /\ pc[last.h] = "idle"

\* C10 witness: the token endpoint answered 200 with an empty access token;
\* the handling ended with 400 after one token request and no user-info
\* request.
C10_Witness ==
    /\ last.route = "/callback"
    /\ last.at = "token"
    /\ last.answer = HttpResponse(200, "", Dict([access_token |-> Str("")]))
    /\ last.posts = 1
    /\ last.gets = 0
    /\ last.response.status_code = 400

\* the provider's authorization URL, spelled out
ProviderAuthUrl ==
    [base  |-> "http://localhost:8080",
     path  |-> "/realms/portal/protocol/openid-connect/auth",
     query |-> [client_id     |-> "portal-client",
                redirect_uri  |-> "http://localhost:8100/callback",
                response_type |-> "code",
                scope         |-> "openid profile email"]]

\* C11: /login redirects to the provider's authorization URL (client id,
\* redirect URI, response_type=code, scope openid profile email) when the
\* session is not authenticated, that is holds no user entry, and to the
\* home page when it is authenticated, that is holds a user entry.
C11_LoginRedirects ==
    last.route = "/login"
        => /\ last.response.kind = "redirect"
           /\ last.response.url
                = (IF "user" \in DOMAIN last.before
                   THEN CallbackSuccessUrl
                   ELSE ProviderAuthUrl)

\* C12: in every session that holds a user entry, whatever the claims map
\* (the empty one included), /home responds 200 and not 401.
C12_PresenceDecides ==
    /\ (last.route = "/home" /\ "user" \in DOMAIN last.before)
          => last.response.status_code = 200
    /\ "user" \in DOMAIN session => home(session).status_code = 200

\* C13: in every reachable session the authenticated flag rendered by / and
\* by the 404 and error pages is true exactly when /home is served (not 401)
\* and exactly when /login redirects to the home page.
C13_OneDecision ==
    LET flag   == index(session).context.authenticated
        served == home(session).status_code # 401
        toHome == login(session).url = CallbackSuccessUrl
    IN  /\ flag <=> served
        /\ flag <=> toHome
        /\ catch_all_404(session).context.authenticated = flag
        /\ contact(session).context.authenticated = flag
        /\ static_files(session, FALSE).context.authenticated = flag

\* the upstream answer the step received makes /callback fail
FailingAnswer ==
    /\ last.route = "/callback"
    /\ last.at \in {"token", "userinfo"}
    /\ \/ last.answer.kind = "raise"
       \/ Non200(last.answer)
       \/ last.at = "token" /\ ~Has200Token(last.answer)

\* C14: a step in which /callback ends with an error (token non-200, missing
\* access token, user-info non-200, timeout or connection error of either
\* call) leaves the user and access_token entries as they were, and so does
\* every step at which the handler is suspended: an anonymous session stays
\* anonymous, an authenticated one keeps its user and token.
C14_FailedCallbackKeepsSession ==
    /\ FailingAnswer
          => /\ last.response.status_code \in {400, 502, 504}
             /\ DictGet(session, "user") = DictGet(last.before, "user")
             /\ DictGet(session, "access_token") = DictGet(last.before, "access_token")
             /\ session = last.before
    /\ (last.route = "/callback" /\ last.response = NoResponse)
          => session = last.before

\* C14 witness: the user-info call of a /callback timed out in a session
\* authenticated as alice, which still holds alice and her token.
C14_Witness ==
    /\ FailingAnswer
    /\ last.at = "userinfo"
    /\ last.answer = HttpRaise("ConnectTimeout")
    /\ last.before = [user |-> Dict([sub |-> "alice"]), access_token |-> Str("tokA")]
    /\ session = last.before

\* C15: in every reachable state the session holds a user entry if and only
\* if it holds an access_token entry.
C15_UserIffToken ==
    ("user" \in DOMAIN session) <=> ("access_token" \in DOMAIN session)

\* C15 witness: a /callback failed in a session that holds both entries,
\* while another handling is still in flight.
C15_Witness ==
    /\ FailingAnswer
    /\ "user" \in DOMAIN session
    /\ "access_token" \in DOMAIN session
    /\ \E h \in Handlers : pc[h] # "idle"

\* C16: from the handling of /logout until a /callback completes with
\* success, the session holds no user entry and every request to a
\* protected route responds 401.
C16_LoggedOutUntilCallback ==
    logged_out
        => /\ "user" \notin DOMAIN session
           /\ home(session).status_code = 401
           /\ profile(session).status_code = 401
           /\ settings(session).status_code = 401
           /\ help_page(session).status_code = 401
           /\ last.route \in ProtectedRoutes => last.response.status_code = 401
           /\ last.route = "/login" => last.response.url = ProviderAuthUrl

\* C16 witness: after a logout of an authenticated session and with no
\* successful callback since, /home answered 401.
C16_Witness ==
    /\ logged_out
    /\ fetched.token # None
    /\ last.route = "/home"
    /\ last.response.status_code = 401

\* C17: whenever the session holds a user and an access_token, both were
\* stored by the same handling of /callback: the claims are the ones its
\* user-info call returned and the token is the one that call was made with.
C17_PairNotMixed ==
    ("user" \in DOMAIN session /\ "access_token" \in DOMAIN session)
        => /\ session["access_token"] = fetched.token
           /\ session["user"] = fetched.claims

\* C17 witness: a handling stored bob and tokB over alice and tokA while
\* another handling is suspended at its user-info call with tokA.
C17_Witness ==
    /\ last.route = "/callback"
    /\ last.before = [user |-> Dict([sub |-> "alice"]), access_token |-> Str("tokA")]
    /\ session = [user |-> Dict([sub |-> "bob"]), access_token |-> Str("tokB")]
    /\ \E h \in Handlers : pc[h] = "userinfo" /\ access_token[h] = Str("tokA")

\* C18: a path that matches no registered route is answered by the
\* catch-all with 404 in every session state; the paths of /, /login,
\* /callback, /home, /logout, /health and the stub routes are answered by
\* their own route, never by the catch-all; /health responds 200 with the
\* status healthy.
C18_CatchAllAndHealth ==
    /\ last.path \in {"/nope", "/admin"}
          => /\ last.route = "/{full_path:path}"
             /\ last.response.status_code = 404
    /\ last.path \in {"/", "/login", "/callback", "/home", "/logout", "/health",
                      "/contact", "/profile", "/settings", "/help"}
          => /\ last.route = last.path
             /\ last.response # catch_all_404(last.before)
    /\ last.route = "/health"
          => last.response
                = [kind |-> "json", content |-> [status |-> "healthy"],
                   status_code |-> 200]

\* C18 witness: an unregistered path was answered 404 in an authenticated
\* session.
C18_Witness ==
    /\ last.path = "/admin"
    /\ "user" \in DOMAIN last.before
    /\ last.response.status_code = 404
    /\ last.response.context.authenticated

====
